---- MODULE Spec2Model ----
(***************************************************************************)
(* RedisDB streaming RESP parser (src/parser.c, src/parser.h).             *)
(*                                                                         *)
(* The parser object, its byte buffer, the callback FIFO and the default   *)
(* callback are the state; rdb_parser__parse_reply and                     *)
(* rdb_parser__propagate_reply are translated statement by statement into  *)
(* operators over a parser record; the driver (byte appends, callback      *)
(* registration) is the environment.                                       *)
(*                                                                         *)
(* Conventions                                                             *)
(*   - a byte is its integer code (0..255); a byte string is a sequence;   *)
(*   - an AV* / list pointer is a sequence of length <= 1: NULL is <<>>;   *)
(*   - a callback SV* is a positive integer, 0 is the NULL default_cb;     *)
(*   - a Perl scalar (SV) is a record [t, s, n, a, utf8], see SV values;   *)
(*   - an execution context x = [p, calls, err, tags] threads the parser   *)
(*     record, the log of callback invocations, the croak message ("" =    *)
(*     none) and the type tags read by the current call through the C      *)
(*     control flow; a croak unwinds every caller.                         *)
(***************************************************************************)
EXTENDS Integers, Sequences, FiniteSets, TLC

(* ------------------------------------------------------------------ *)
(* Bytes the code names                                                *)
(* ------------------------------------------------------------------ *)
PLUS == 43
MINUS == 45
COLON == 58
DOLLAR == 36
STAR == 42
CR == 13
LF == 10

(* parser.h: parser states *)
RDBP_CLEAN == 0
RDBP_READ_LINE == 1
RDBP_READ_ERROR == 2
RDBP_READ_NUMBER == 3
RDBP_READ_BULK_LEN == 4
RDBP_READ_BULK == 5
RDBP_READ_MBLK_LEN == 6
RDBP_WAIT_BUCKS == 7

NULL == <<>>

(* ------------------------------------------------------------------ *)
(* SV values produced by the parser                                    *)
(* ------------------------------------------------------------------ *)
\* newSVpvn(pv, len): a byte string scalar, UTF-8 flag off
newSVpvn(s) ==
    [t |-> "pv", s |-> s, n |-> 0, a |-> <<>>, utf8 |-> FALSE]

\* newSVpvn(NULL, 0): the undefined value
newSVundef ==
    [t |-> "undef", s |-> <<>>, n |-> 0, a |-> <<>>, utf8 |-> FALSE]

\* newSViv(n)
newSViv(n) ==
    [t |-> "iv", s |-> <<>>, n |-> n, a |-> <<>>, utf8 |-> FALSE]

\* newRV_noinc((SV *) av): reference to an array of SVs
newRV_noinc(av) ==
    [t |-> "rv", s |-> <<>>, n |-> 0, a |-> av, utf8 |-> FALSE]

(* ------------------------------------------------------------------ *)
(* Frame scanner                                                       *)
(* ------------------------------------------------------------------ *)
\* sv_chop(buffer, pv + n): drop the leading n bytes
sv_chop(buffer, n) ==
    SubSeq(buffer, n + 1, Len(buffer))

\* The scan bound "length - 1" in size_t arithmetic: for length 0 it wraps
\* to SIZE_MAX, which exceeds every buffer length (2147483647 stands for it).
ScanBound(length) ==
    IF length = 0 THEN 2147483647 ELSE length - 1

\* The for loop of _line_length from index i on: the offset of the first
\* CR LF, -1 when the loop ends without one, -3 when the loop would read a
\* byte that is not in the buffer (undefined behaviour in C).
RECURSIVE LineScan(_, _, _)
LineScan(start, length, i) ==
    IF i < ScanBound(length)
    THEN IF i + 2 > Len(start)
         THEN -3
         ELSE IF start[i + 1] = CR /\ start[i + 2] = LF
              THEN i
              ELSE LineScan(start, length, i + 1)
    ELSE -1

\* a scan that takes a CR in the last scanned position for a line end
\* without looking at the byte after it
RECURSIVE LineScanCr(_, _, _)
LineScanCr(start, length, i) ==
    IF i < length
    THEN IF i + 1 > Len(start)
         THEN -3
         ELSE IF start[i + 1] = CR /\ (i + 2 > Len(start) \/ start[i + 2] = LF)
              THEN i
              ELSE LineScanCr(start, length, i + 1)
    ELSE -1

line_length_cr(start, length) ==
    LineScanCr(start, length, 0)

line_length(start, length) ==
    LineScan(start, length, 0)

\* isspace() of the C locale
IsSpace(b) ==
    b \in {9, 10, 11, 12, 13, 32}

RECURSIVE SkipSpace(_, _)
SkipSpace(s, i) ==
    IF i <= Len(s) /\ IsSpace(s[i]) THEN SkipSpace(s, i + 1) ELSE i

RECURSIVE AtolDigits(_, _, _)
AtolDigits(s, i, acc) ==
    IF i <= Len(s) /\ s[i] \in 48..57
    THEN AtolDigits(s, i + 1, acc * 10 + (s[i] - 48))
    ELSE acc

\* atol() on the NUL-terminated line s: optional white space, optional
\* sign, then decimal digits up to the first other byte.
atol(s) ==
    LET i == SkipSpace(s, 1)
        neg == i <= Len(s) /\ s[i] = MINUS
        j == IF i <= Len(s) /\ s[i] \in {PLUS, MINUS} THEN i + 1 ELSE i
        v == AtolDigits(s, j, 0)
    IN  IF neg THEN 0 - v ELSE v

\* _read_line: [line |-> NULL or <<bytes>>, buffer |-> what is left]
read_line(buffer) ==
    LET len == line_length(buffer, Len(buffer))
    IN  IF len >= 0
        THEN [line |-> <<SubSeq(buffer, 1, len)>>,
              buffer |-> sv_chop(buffer, len + 2)]
        ELSE [line |-> NULL, buffer |-> buffer]

\* _read_number: [num |-> NULL or <<integer>>, buffer |-> what is left]
read_number(buffer) ==
    LET len == line_length(buffer, Len(buffer))
    IN  IF len >= 0
        THEN [num |-> <<atol(SubSeq(buffer, 1, len))>>,
              buffer |-> sv_chop(buffer, len + 2)]
        ELSE [num |-> NULL, buffer |-> buffer]

\* a length reader that leaves the line in the buffer
read_length_peek(buffer) ==
    LET len == line_length(buffer, Len(buffer))
    IN  IF len >= 0
        THEN [num |-> atol(SubSeq(buffer, 1, len)), buffer |-> buffer]
        ELSE [num |-> -2, buffer |-> buffer]

\* _read_length: [num |-> the length, or -2 when no line is finished]
read_length(buffer) ==
    LET len == line_length(buffer, Len(buffer))
    IN  IF len >= 0
        THEN [num |-> atol(SubSeq(buffer, 1, len)),
              buffer |-> sv_chop(buffer, len + 2)]
        ELSE [num |-> -2, buffer |-> buffer]

(* ------------------------------------------------------------------ *)
(* UTF-8 validation (sv_utf8_decode -> is_utf8_string)                 *)
(* ------------------------------------------------------------------ *)
IsCont(b) ==
    b \in 128..191

\* number of continuation bytes a lead byte announces, -1 for a byte that
\* cannot start a character
ContBytes(b) ==
    IF b < 128 THEN 0
    ELSE IF b \in 194..223 THEN 1
    ELSE IF b \in 224..239 THEN 2
    ELSE IF b \in 240..247 THEN 3
    ELSE -1

RECURSIVE IsUtf8From(_, _)
IsUtf8From(s, i) ==
    IF i > Len(s) THEN TRUE
    ELSE LET k == ContBytes(s[i])
         IN  /\ k >= 0
             /\ i + k <= Len(s)
             /\ \A j \in (i + 1)..(i + k) : IsCont(s[j])
             /\ (s[i] = 224 => s[i + 1] >= 160)
             /\ (s[i] = 240 => s[i + 1] >= 144)
             /\ IsUtf8From(s, i + k + 1)

is_utf8_string(s) ==
    IsUtf8From(s, 1)

\* sv_utf8_decode(bulk): [ok |-> valid UTF-8, sv |-> bulk, with the UTF-8
\* flag on when it holds a multi-byte character]
sv_utf8_decode(bulk) ==
    IF is_utf8_string(bulk.s)
    THEN [ok |-> TRUE,
          sv |-> [bulk EXCEPT !.utf8 = \E i \in 1..Len(bulk.s) : bulk.s[i] >= 128]]
    ELSE [ok |-> FALSE, sv |-> bulk]

(* ------------------------------------------------------------------ *)
(* Execution context                                                   *)
(* ------------------------------------------------------------------ *)
croak(x, msg) ==
    [x EXCEPT !.err = msg]

\* call_sv(cb, G_VOID|G_DISCARD) with (redisdb, reply): the callback is
\* opaque; the invocation is logged (by: the function that made it), and
\* so is the parser as the callback finds it.
call_sv(x, cb, reply, by) ==
    [x EXCEPT !.calls = Append(@, [cb |-> cb, reply |-> reply, by |-> by]),
              !.seen = Append(@, x.p)]

\* "op = *pv": the byte op is read as a type tag in state `state` from a
\* buffer of len bytes
ReadTag(x, state, op, len) ==
    [x EXCEPT !.tags = Append(@, [state |-> state, op |-> op, len |-> len])]

\* _line_length(pv, sv_len(buffer)) is called on buffer
Scan(x, buffer) ==
    [x EXCEPT !.reads = Append(@, [kind |-> "scan", len |-> Len(buffer),
                                   arg |-> line_length(buffer, Len(buffer))])]

\* newSVpvn(pv, bulk_len) and sv_chop(buffer, pv + bulk_len + 2) on buffer
Copy(x, buffer, bulk_len) ==
    [x EXCEPT !.reads = Append(@, [kind |-> "copy", len |-> Len(buffer),
                                   arg |-> bulk_len])]

\* _create_rdb_error(msg): RedisDB::Error->new(msg), an object carrying
\* the message
create_rdb_error(msg) ==
    [t |-> "error", s |-> msg, n |-> 0, a |-> <<>>, utf8 |-> FALSE]

(* ------------------------------------------------------------------ *)
(* Stack of outer multi-bulk frames                                    *)
(* ------------------------------------------------------------------ *)
\* a push that does not link the new frame to the frames below it
mblk_status_store_unlinked(p) ==
    [p EXCEPT !.mblk_store = <<[mblk_reply |-> p.mblk_reply,
                                mblk_len |-> p.mblk_len]>>,
              !.mblk_reply = NULL]

\* _mblk_status_store: push {mblk_reply, mblk_len}, clear mblk_reply
mblk_status_store(p) ==
    [p EXCEPT !.mblk_store = <<[mblk_reply |-> p.mblk_reply,
                                mblk_len |-> p.mblk_len]>> \o @,
              !.mblk_reply = NULL]

\* _mblk_status_fetch: pop the top frame into mblk_len / mblk_reply
mblk_status_fetch(x) ==
    IF x.p.mblk_store = <<>>
    THEN croak(x, "Already at the upper level of multi-bulk reply")
    ELSE [x EXCEPT !.p.mblk_len = x.p.mblk_store[1].mblk_len,
                   !.p.mblk_reply = x.p.mblk_store[1].mblk_reply,
                   !.p.mblk_store = Tail(x.p.mblk_store)]

(* ------------------------------------------------------------------ *)
(* Reply assembler                                                     *)
(* ------------------------------------------------------------------ *)
\* an item step that counts down to 0 before it closes the array
RECURSIVE mblk_item_zero(_, _)
mblk_item_zero(x, value) ==
    IF x.p.mblk_reply = NULL
    THEN [x |-> croak(x, "SIGSEGV"), repeat |-> 0]
    ELSE LET x1 == [x EXCEPT !.p.mblk_reply = <<Append(x.p.mblk_reply[1], value)>>]
         IN  IF x1.p.mblk_len > 0
             THEN [x |-> [x1 EXCEPT !.p.mblk_len = @ - 1,
                                    !.p.state = RDBP_WAIT_BUCKS],
                   repeat |-> 1]
             ELSE IF x1.p.mblk_level > 1
             THEN LET x2 == [x1 EXCEPT !.p.mblk_level = @ - 1]
                      tmp == newRV_noinc(x2.p.mblk_reply[1])
                      x3 == mblk_status_fetch(x2)
                  IN  IF x3.err # ""
                      THEN [x |-> x3, repeat |-> 0]
                      ELSE mblk_item_zero(x3, tmp)
             ELSE [x |-> x1, repeat |-> 0]

\* an item step that closes one array only and then waits for an item
mblk_item_once(x, value) ==
    IF x.p.mblk_reply = NULL
    THEN [x |-> croak(x, "SIGSEGV"), repeat |-> 0]
    ELSE LET x1 == [x EXCEPT !.p.mblk_reply = <<Append(x.p.mblk_reply[1], value)>>]
         IN  IF x1.p.mblk_len > 1
             THEN [x |-> [x1 EXCEPT !.p.mblk_len = @ - 1,
                                    !.p.state = RDBP_WAIT_BUCKS],
                   repeat |-> 1]
             ELSE IF x1.p.mblk_level > 1
             THEN LET x2 == [x1 EXCEPT !.p.mblk_level = @ - 1]
                      tmp == newRV_noinc(x2.p.mblk_reply[1])
                      x3 == mblk_status_fetch(x2)
                  IN  IF x3.err # ""
                      THEN [x |-> x3, repeat |-> 0]
                      ELSE [x |-> [x3 EXCEPT !.p.mblk_reply = <<Append(@[1], tmp)>>,
                                             !.p.mblk_len = @ - 1,
                                             !.p.state = RDBP_WAIT_BUCKS],
                            repeat |-> 1]
             ELSE [x |-> x1, repeat |-> 0]

\* _mblk_item: [x |-> context, repeat |-> 1 when the reply needs more items]
\* av_push on a NULL mblk_reply is a NULL dereference: it ends the call
\* with the error "SIGSEGV".
RECURSIVE mblk_item(_, _)
mblk_item(x, value) ==
    IF x.p.mblk_reply = NULL
    THEN [x |-> croak(x, "SIGSEGV"), repeat |-> 0]
    ELSE LET x1 == [x EXCEPT !.p.mblk_reply = <<Append(x.p.mblk_reply[1], value)>>]
         IN  IF x1.p.mblk_len > 1
             THEN [x |-> [x1 EXCEPT !.p.mblk_len = @ - 1,
                                    !.p.state = RDBP_WAIT_BUCKS],
                   repeat |-> 1]
             ELSE IF x1.p.mblk_level > 1
             THEN LET x2 == [x1 EXCEPT !.p.mblk_level = @ - 1]
                      tmp == newRV_noinc(x2.p.mblk_reply[1])
                      x3 == mblk_status_fetch(x2)
                  IN  IF x3.err # ""
                      THEN [x |-> x3, repeat |-> 0]
                      ELSE mblk_item(x3, tmp)
             ELSE [x |-> x1, repeat |-> 0]

\* a dispatch that takes the callback from the end of the queue (av_pop)
DispatchLast(x, reply) ==
    IF Len(x.p.callbacks) > 0
    THEN call_sv([x EXCEPT !.p.callbacks = SubSeq(@, 1, Len(@) - 1)],
                 x.p.callbacks[Len(x.p.callbacks)], reply, "parse")
    ELSE IF x.p.default_cb # 0
    THEN call_sv(x, x.p.default_cb, reply, "parse")
    ELSE croak(x, "No callbacks in the queue and no default callback set")

\* a dispatch that also calls the default callback after the queued one
DispatchBoth(x, reply) ==
    LET x1 == IF Len(x.p.callbacks) > 0
              THEN call_sv([x EXCEPT !.p.callbacks = Tail(@)],
                           x.p.callbacks[1], reply, "parse")
              ELSE x
    IN  IF x.p.default_cb # 0
        THEN call_sv(x1, x.p.default_cb, reply, "parse")
        ELSE IF Len(x.p.callbacks) > 0 THEN x1
        ELSE croak(x, "No callbacks in the queue and no default callback set")

\* a dispatch that uses the default callback once, as propagate does
DispatchOneShot(x, reply) ==
    IF Len(x.p.callbacks) > 0
    THEN call_sv([x EXCEPT !.p.callbacks = Tail(@)], x.p.callbacks[1], reply, "parse")
    ELSE IF x.p.default_cb # 0
    THEN call_sv([x EXCEPT !.p.default_cb = 0], x.p.default_cb, reply, "parse")
    ELSE croak(x, "No callbacks in the queue and no default callback set")

\* a dispatch that drops a reply nobody waits for
DispatchDrop(x, reply) ==
    IF Len(x.p.callbacks) > 0
    THEN call_sv([x EXCEPT !.p.callbacks = Tail(@)], x.p.callbacks[1], reply, "parse")
    ELSE IF x.p.default_cb # 0
    THEN call_sv(x, x.p.default_cb, reply, "parse")
    ELSE x

\* The dispatch block of _reply_completed (lines 261-280): the head of the
\* FIFO, else the default callback, else croak.
Dispatch(x, reply) ==
    IF Len(x.p.callbacks) > 0
    THEN call_sv([x EXCEPT !.p.callbacks = Tail(@)], x.p.callbacks[1], reply, "parse")
    ELSE IF x.p.default_cb # 0
    THEN call_sv(x, x.p.default_cb, reply, "parse")
    ELSE croak(x, "No callbacks in the queue and no default callback set")

\* a completion that switches to RDBP_CLEAN after the callback returns
reply_completed_late(x, value) ==
    LET r == IF x.p.mblk_level # 0 THEN mblk_item(x, value)
             ELSE [x |-> x, repeat |-> 0]
    IN  IF r.x.err # "" THEN [x |-> r.x, completed |-> 0]
        ELSE IF r.repeat # 0 THEN [x |-> r.x, completed |-> 0]
        ELSE LET reply == IF x.p.mblk_level # 0
                          THEN newRV_noinc(r.x.p.mblk_reply[1])
                          ELSE value
                 x1 == IF x.p.mblk_level # 0
                       THEN [r.x EXCEPT !.p.mblk_reply = NULL]
                       ELSE r.x
             IN  [x |-> [Dispatch(x1, reply) EXCEPT !.p.state = RDBP_CLEAN],
                  completed |-> 1]

\* a completion that keeps the delivered array in mblk_reply
reply_completed_keep(x, value) ==
    LET r == IF x.p.mblk_level # 0 THEN mblk_item(x, value)
             ELSE [x |-> x, repeat |-> 0]
    IN  IF r.x.err # "" THEN [x |-> r.x, completed |-> 0]
        ELSE IF r.repeat # 0 THEN [x |-> r.x, completed |-> 0]
        ELSE LET reply == IF x.p.mblk_level # 0
                          THEN newRV_noinc(r.x.p.mblk_reply[1])
                          ELSE value
                 x2 == [r.x EXCEPT !.p.state = RDBP_CLEAN]
             IN  [x |-> Dispatch(x2, reply), completed |-> 1]

\* a completion that leaves the state as it was
reply_completed_stale(x, value) ==
    LET r == IF x.p.mblk_level # 0 THEN mblk_item(x, value)
             ELSE [x |-> x, repeat |-> 0]
    IN  IF r.x.err # "" THEN [x |-> r.x, completed |-> 0]
        ELSE IF r.repeat # 0 THEN [x |-> r.x, completed |-> 0]
        ELSE LET reply == IF x.p.mblk_level # 0
                          THEN newRV_noinc(r.x.p.mblk_reply[1])
                          ELSE value
                 x1 == IF x.p.mblk_level # 0
                       THEN [r.x EXCEPT !.p.mblk_reply = NULL]
                       ELSE r.x
             IN  [x |-> Dispatch(x1, reply), completed |-> 1]

\* _reply_completed: [x |-> context, completed |-> 1 or 0]
reply_completed(x, value) ==
    LET r == IF x.p.mblk_level # 0 THEN mblk_item(x, value)
             ELSE [x |-> x, repeat |-> 0]
    IN  IF r.x.err # "" THEN [x |-> r.x, completed |-> 0]
        ELSE IF r.repeat # 0 THEN [x |-> r.x, completed |-> 0]
        ELSE LET reply == IF x.p.mblk_level # 0
                          THEN newRV_noinc(r.x.p.mblk_reply[1])
                          ELSE value
                 x1 == IF x.p.mblk_level # 0
                       THEN [r.x EXCEPT !.p.mblk_reply = NULL]
                       ELSE r.x
                 x2 == [x1 EXCEPT !.p.state = RDBP_CLEAN]
             IN  [x |-> Dispatch(x2, reply), completed |-> 1]

\* a tag table that reads a line after any unknown byte
TagStateLax(op) ==
    IF op = MINUS THEN RDBP_READ_ERROR
    ELSE IF op = COLON THEN RDBP_READ_NUMBER
    ELSE IF op = DOLLAR THEN RDBP_READ_BULK_LEN
    ELSE IF op = STAR THEN RDBP_READ_MBLK_LEN
    ELSE RDBP_READ_LINE

\* The state a type tag selects (lines 301-312 and 381-389); 0 - 1 for a
\* byte that is no tag.
TagState(op) ==
    IF op = PLUS THEN RDBP_READ_LINE
    ELSE IF op = MINUS THEN RDBP_READ_ERROR
    ELSE IF op = COLON THEN RDBP_READ_NUMBER
    ELSE IF op = DOLLAR THEN RDBP_READ_BULK_LEN
    ELSE IF op = STAR THEN RDBP_READ_MBLK_LEN
    ELSE 0 - 1

\* a bulk read that ends the payload at the first CR LF
ReadBulkLine(buffer, bulk_len) ==
    IF read_line(buffer).line = NULL
    THEN [bulk |-> newSVpvn(SubSeq(buffer, 1, bulk_len)),
          buffer |-> sv_chop(buffer, bulk_len + 2)]
    ELSE [bulk |-> newSVpvn(read_line(buffer).line[1]),
          buffer |-> read_line(buffer).buffer]

\* Lines 350-352: the first bulk_len bytes are the bulk, bulk_len + 2 bytes
\* are consumed
ReadBulk(buffer, bulk_len) ==
    [bulk |-> newSVpvn(SubSeq(buffer, 1, bulk_len)),
     buffer |-> sv_chop(buffer, bulk_len + 2)]

\* a decode step that never validates
DecodeBulkNoCheck(utf8, bulk) ==
    [ok |-> TRUE, sv |-> bulk]

\* Lines 353-356: in UTF-8 mode the bulk is decoded, ok is FALSE when the
\* parser croaks
DecodeBulk(utf8, bulk) ==
    IF utf8 # 0 THEN sv_utf8_decode(bulk) ELSE [ok |-> TRUE, sv |-> bulk]

\* a nil multi-bulk that becomes an empty array
EmptyMblkArray(length) ==
    newRV_noinc(<<>>)

\* Line 367: the value of a multi-bulk of length 0 or -1
EmptyMblk(length) ==
    IF length = 0 THEN newRV_noinc(<<>>) ELSE newSVundef

\* What one iteration of the while loop does after the "fewer than 2
\* bytes" test: [x |-> context, ret |-> 1 / 0 for return 1 / return 0,
\* 2 for "go round the loop again"]; x.err # "" when it croaked.
LoopBody(x) ==
    LET p == x.p
        completed(r) == [x |-> r.x, ret |-> IF r.completed = 1 THEN 1 ELSE 2]
    IN  IF p.state = RDBP_READ_LINE
        THEN LET l == read_line(p.buffer)
             IN  IF l.line = NULL THEN [x |-> Scan(x, p.buffer), ret |-> 0]
                 ELSE completed(reply_completed([Scan(x, p.buffer) EXCEPT !.p.buffer = l.buffer],
                                                newSVpvn(l.line[1])))
        ELSE IF p.state = RDBP_READ_ERROR
        THEN LET l == read_line(p.buffer)
             IN  IF l.line = NULL THEN [x |-> Scan(x, p.buffer), ret |-> 0]
                 ELSE completed(reply_completed([Scan(x, p.buffer) EXCEPT !.p.buffer = l.buffer],
                                                create_rdb_error(l.line[1])))
        ELSE IF p.state = RDBP_READ_NUMBER
        THEN LET l == read_number(p.buffer)
             IN  IF l.num = NULL THEN [x |-> Scan(x, p.buffer), ret |-> 0]
                 ELSE completed(reply_completed([Scan(x, p.buffer) EXCEPT !.p.buffer = l.buffer],
                                                newSViv(l.num[1])))
        ELSE IF p.state = RDBP_READ_BULK_LEN
        THEN LET l == read_length(p.buffer)
                 x1 == [Scan(x, p.buffer) EXCEPT !.p.buffer = l.buffer]
             IN  IF l.num >= 0
                 THEN [x |-> [x1 EXCEPT !.p.state = RDBP_READ_BULK,
                                        !.p.bulk_len = l.num],
                       ret |-> 2]
                 ELSE IF l.num = -1
                 THEN completed(reply_completed(x1, newSVundef))
                 ELSE [x |-> x1, ret |-> 0]
        ELSE IF p.state = RDBP_READ_BULK
        THEN IF Len(p.buffer) < 2 + p.bulk_len THEN [x |-> x, ret |-> 0]
             ELSE LET b == ReadBulk(p.buffer, p.bulk_len)
                      x1 == [Copy(x, p.buffer, p.bulk_len) EXCEPT !.p.buffer = b.buffer]
                      d == DecodeBulk(p.utf8, b.bulk)
                  IN  IF ~d.ok
                      THEN [x |-> croak(x1, "Received invalid UTF-8 string from the server"),
                            ret |-> 0]
                      ELSE completed(reply_completed(x1, d.sv))
        ELSE IF p.state = RDBP_READ_MBLK_LEN
        THEN LET l == read_length(p.buffer)
                 x1 == [Scan(x, p.buffer) EXCEPT !.p.buffer = l.buffer]
             IN  IF l.num > 0
                 THEN [x |-> [x1 EXCEPT !.p.mblk_len = l.num,
                                        !.p.state = RDBP_WAIT_BUCKS,
                                        !.p.mblk_reply = <<(<<>>)>>],
                       ret |-> 2]
                 ELSE IF l.num = 0 \/ l.num = -1
                 THEN LET mblk == EmptyMblk(l.num)
                          x2 == [x1 EXCEPT !.p.mblk_level = @ - 1]
                          x3 == IF x2.p.mblk_level > 0 THEN mblk_status_fetch(x2) ELSE x2
                      IN  IF x3.err # "" THEN [x |-> x3, ret |-> 0]
                          ELSE completed(reply_completed(x3, mblk))
                 ELSE [x |-> x1, ret |-> 0]
        ELSE IF p.state = RDBP_WAIT_BUCKS
        THEN LET op == p.buffer[1]
                 x1 == ReadTag([x EXCEPT !.p.buffer = sv_chop(@, 1)],
                               RDBP_WAIT_BUCKS, op, Len(p.buffer))
             IN  IF op = STAR
                 THEN [x |-> [x1 EXCEPT !.p = mblk_status_store(
                                  [x1.p EXCEPT !.state = RDBP_READ_MBLK_LEN,
                                               !.mblk_level = @ + 1])],
                       ret |-> 2]
                 ELSE IF TagState(op) >= 0
                 THEN [x |-> [x1 EXCEPT !.p.state = TagState(op)], ret |-> 2]
                 ELSE [x |-> croak(x1, "Invalid multi-bulk reply. Expected [$:+-*] but got something else"),
                       ret |-> 0]
        ELSE [x |-> x, ret |-> 2]

\* a loop that goes on while one byte is left
RECURSIVE ParseLoopOne(_)
ParseLoopOne(x) ==
    IF Len(x.p.buffer) < 1 THEN [x |-> x, ret |-> 0]
    ELSE LET r == LoopBody(x)
         IN  IF r.x.err # "" THEN [x |-> r.x, ret |-> 0 - 1]
             ELSE IF r.ret = 2 THEN ParseLoopOne(r.x)
             ELSE r

\* while (1) { ... } of rdb_parser__parse_reply (lines 318-392)
RECURSIVE ParseLoop(_)
ParseLoop(x) ==
    IF Len(x.p.buffer) < 2 THEN [x |-> x, ret |-> 0]
    ELSE LET r == LoopBody([x EXCEPT !.lens = Append(@, Len(x.p.buffer))])
         IN  IF r.x.err # "" THEN [x |-> r.x, ret |-> 0 - 1]
             ELSE IF r.ret = 2 THEN ParseLoop(r.x)
             ELSE r

\* The entry of rdb_parser__parse_reply in state RDBP_CLEAN (lines 293-316)
CleanEntry(x) ==
    LET op == x.p.buffer[1]
        x1 == ReadTag([x EXCEPT !.p.mblk_level = IF op = STAR THEN 1 ELSE 0,
                                !.p.buffer = sv_chop(@, 1)],
                      RDBP_CLEAN, op, Len(x.p.buffer))
    IN  IF TagState(op) >= 0
        THEN [x1 EXCEPT !.p.state = TagState(op)]
        ELSE croak(x1, "Got invalid reply")

\* rdb_parser__parse_reply: [x |-> context, ret |-> 1 (reply delivered),
\* 0 (no reply) or -1 (croaked, x.err is the message)]
parse_reply(x) ==
    IF Len(x.p.buffer) = 0 THEN [x |-> x, ret |-> 0]
    ELSE LET x1 == IF x.p.state = RDBP_CLEAN THEN CleanEntry(x) ELSE x
         IN  IF x1.err # "" THEN [x |-> x1, ret |-> 0 - 1]
             ELSE ParseLoop(x1)

\* a propagate that stops when the queue is empty
RECURSIVE propagate_reply_queue(_, _)
propagate_reply_queue(x, reply) ==
    IF Len(x.p.callbacks) > 0
    THEN propagate_reply_queue(call_sv([x EXCEPT !.p.callbacks = Tail(@)],
                                       x.p.callbacks[1], reply, "propagate"), reply)
    ELSE x

\* rdb_parser__propagate_reply: every queued callback, then the default
\* callback, each called with a copy of reply
RECURSIVE propagate_reply(_, _)
propagate_reply(x, reply) ==
    IF Len(x.p.callbacks) > 0
    THEN propagate_reply(call_sv([x EXCEPT !.p.callbacks = Tail(@)],
                                 x.p.callbacks[1], reply, "propagate"), reply)
    ELSE IF x.p.default_cb # 0
    THEN propagate_reply(call_sv([x EXCEPT !.p.default_cb = 0],
                                 x.p.default_cb, reply, "propagate"), reply)
    ELSE x

(* ------------------------------------------------------------------ *)
(* The server side: RESP values and their wire encoding                *)
(* ------------------------------------------------------------------ *)
\* bounds of the streams the server sends
MaxNodes == 3
MaxArrLen == 2
MaxReplies == 3
MaxStreamReplies == 2
\* bounds of the driver
MaxCallbacks == 3
MaxPropagate == 1

\* RESP values: k is the kind ("+", "-", ":", "$", "$nil", "*", "*nil")
RLine(s) == [k |-> "+", s |-> s, n |-> 0, a |-> <<>>]
RError(s) == [k |-> "-", s |-> s, n |-> 0, a |-> <<>>]
RInt(n) == [k |-> ":", s |-> <<>>, n |-> n, a |-> <<>>]
RBulk(s) == [k |-> "$", s |-> s, n |-> 0, a |-> <<>>]
RNilBulk == [k |-> "$nil", s |-> <<>>, n |-> 0, a |-> <<>>]
RArray(a) == [k |-> "*", s |-> <<>>, n |-> 0, a |-> a]
RNilArray == [k |-> "*nil", s |-> <<>>, n |-> 0, a |-> <<>>]

\* decimal digits of n >= 0
RECURSIVE Digits(_)
Digits(n) ==
    IF n < 10 THEN <<48 + n>> ELSE Append(Digits(n \div 10), 48 + (n % 10))

Itoa(n) ==
    IF n < 0 THEN <<MINUS>> \o Digits(0 - n) ELSE Digits(n)

CRLF == <<CR, LF>>

\* <tag><content>CRLF of one RESP value
RECURSIVE Encode(_)
RECURSIVE EncodeAll(_)
Encode(r) ==
    IF r.k = "+" THEN <<PLUS>> \o r.s \o CRLF
    ELSE IF r.k = "-" THEN <<MINUS>> \o r.s \o CRLF
    ELSE IF r.k = ":" THEN <<COLON>> \o Itoa(r.n) \o CRLF
    ELSE IF r.k = "$" THEN <<DOLLAR>> \o Itoa(Len(r.s)) \o CRLF \o r.s \o CRLF
    ELSE IF r.k = "$nil" THEN <<DOLLAR>> \o Itoa(0 - 1) \o CRLF
    ELSE IF r.k = "*" THEN <<STAR>> \o Itoa(Len(r.a)) \o CRLF \o EncodeAll(r.a)
    ELSE <<STAR>> \o Itoa(0 - 1) \o CRLF

EncodeAll(rs) ==
    IF rs = <<>> THEN <<>> ELSE Encode(Head(rs)) \o EncodeAll(Tail(rs))

\* scalars sent at top level: +OK, a line and an error that are not UTF-8
\* (C3), :7, :-12, $0, $-1, a bulk holding CR LF ("a\r\nb"), a UTF-8 bulk
\* (C3 A9) and a bulk that is not UTF-8 (C3)
TopLeaves ==
    { RLine(<<79, 75>>), RLine(<<195>>), RError(<<69, 195>>), RInt(7),
      RInt(0 - 12), RBulk(<<>>), RNilBulk, RBulk(<<97, 13, 10, 98>>),
      RBulk(<<195, 169>>), RBulk(<<195>>) }

\* scalars sent as array elements
ElemLeaves ==
    { RInt(7), RBulk(<<195>>) }

\* Trees(w): the array elements of exactly w nodes; Forests(w, len): the
\* element lists of len elements and w nodes in all.
RECURSIVE Trees(_)
RECURSIVE Forests(_, _)
Trees(w) ==
    IF w = 1 THEN ElemLeaves \cup {RArray(<<>>), RNilArray}
    ELSE { RArray(f) : f \in UNION { Forests(w - 1, len) : len \in 1..MaxArrLen } }

Forests(w, len) ==
    IF len = 0 THEN (IF w = 0 THEN {<<>>} ELSE {})
    ELSE IF w < len THEN {}
    ELSE UNION { { <<t>> \o f : t \in Trees(k), f \in Forests(w - k, len - 1) }
                 : k \in 1..(w - len + 1) }

Arrays ==
    { t \in UNION { Trees(w) : w \in 1..MaxNodes } : t.k \in {"*", "*nil"} }

\* replies of the streams that hold several replies
SmallReplies ==
    { RInt(7), RBulk(<<97>>), RArray(<<RNilBulk>>) }

\* replies to the requests a driver has in flight
DriverReplies ==
    { RInt(7), RArray(<<>>) }

RECURSIVE SeqsOf(_, _)
SeqsOf(S, len) ==
    IF len = 0 THEN {<<>>}
    ELSE { <<e>> \o q : e \in S, q \in SeqsOf(S, len - 1) }

\* the reply sequences the server may send: to a driver with several
\* requests in flight (Sent), and one reply of every shape or a few in a
\* row (StreamSent)
Sent ==
    UNION { SeqsOf(DriverReplies, len) : len \in 1..MaxReplies }

StreamSent ==
    { <<r>> : r \in TopLeaves \cup Arrays }
        \cup UNION { SeqsOf(SmallReplies, len) : len \in 2..MaxStreamReplies }

\* Streams of arrays three deep, with scalar, empty and nil last elements
NestedSent ==
    { <<RArray(<<RArray(<<RArray(<<RInt(7)>>)>>)>>)>>,
      <<RArray(<<RArray(<<RArray(<<RInt(7)>>)>>), RInt(7)>>)>>,
      <<RArray(<<RArray(<<RArray(<<RInt(7)>>), RInt(7)>>)>>)>>,
      <<RArray(<<RInt(7), RArray(<<RArray(<<RBulk(<<97>>)>>)>>)>>)>>,
      <<RArray(<<RArray(<<RArray(<<>>)>>)>>)>>,
      <<RArray(<<RArray(<<RNilArray>>)>>)>>,
      <<RArray(<<RArray(<<RInt(7), RArray(<<>>)>>), RNilArray>>)>>,
      <<RArray(<<RNilArray, RArray(<<>>)>>), RArray(<<>>), RNilArray>> }

\* Streams that are damaged on the way: one byte of the encoding of a
\* reply is replaced.
DamagedSent ==
    { <<RInt(7)>>, <<RBulk(<<97>>)>>, <<RNilBulk>>, <<RNilArray>>,
      <<RArray(<<RInt(7)>>)>>, <<RArray(<<RInt(7), RInt(7)>>)>>,
      <<RArray(<<RArray(<<RNilBulk>>)>>)>> }

\* the bytes that replace one: "x", "2", "-", "*"
DamageBytes ==
    { 120, 50, MINUS, STAR }

Damage(bytes, i, b) ==
    [bytes EXCEPT ![i] = b]

AnyWire ==
    UNION { { Damage(EncodeAll(replies), i, b) :
                i \in 1..Len(EncodeAll(replies)), b \in DamageBytes }
            : replies \in DamagedSent }

(* ------------------------------------------------------------------ *)
(* State                                                               *)
(* ------------------------------------------------------------------ *)
VARIABLES
    parser,     \* struct redisdb_parser
    sent,       \* the replies the server sends on this connection
    wire,       \* their bytes not yet read from the socket
    calls,      \* every callback invocation so far, in order
    errs,       \* the message of every croak so far, in order
    ret,        \* what the last rdb_parser__parse_reply returned (-1: croaked)
    ndelivered, \* rdb_parser__parse_reply calls that returned 1 so far
    npushed,    \* callbacks pushed so far; the k-th pushed callback is k
    npropagated \* rdb_parser__propagate_reply calls so far

vars ==
    <<parser, sent, wire, calls, errs, ret, ndelivered, npushed, npropagated>>

\* the default callback the driver installs, and the reply it propagates
DefaultCbs == {100}
PropagatedReplies == {create_rdb_error(<<88>>)}

\* What the memory Newx returns may hold: zeroes (fresh pages) or what an
\* earlier owner left (here: every word 2).
Uninit == {0, 2}

\* rdb_parser__init(redisdb, utf8): mblk_level, mblk_len and bulk_len are
\* not assigned, they keep what the memory held (junk)
rdb_parser__init(utf8, junk) ==
    [utf8 |-> utf8,
     callbacks |-> <<>>,
     default_cb |-> 0,
     mblk_reply |-> NULL,
     mblk_store |-> <<>>,
     buffer |-> <<>>,
     state |-> RDBP_CLEAN,
     mblk_level |-> junk,
     mblk_len |-> junk,
     bulk_len |-> junk]

\* a new parser on a new connection, on which the bytes `bytes` arrive,
\* the encoding of `replies`
Connect(replies, bytes) ==
    /\ \E utf8 \in {0, 1}, junk \in Uninit :
           parser = rdb_parser__init(utf8, junk)
    /\ sent = replies
    /\ wire = bytes
    /\ calls = <<>>
    /\ errs = <<>>
    /\ ret = 0
    /\ ndelivered = 0
    /\ npushed = 0
    /\ npropagated = 0

Init ==
    \E replies \in Sent : Connect(replies, EncodeAll(replies))

InitStream ==
    \E replies \in StreamSent : Connect(replies, EncodeAll(replies))

InitAny ==
    \E bytes \in AnyWire : Connect(<<>>, bytes)

InitNested ==
    \E replies \in NestedSent : Connect(replies, EncodeAll(replies))

\* the process is alive: no NULL dereference has happened
Alive ==
    \A i \in 1..Len(errs) : errs[i] # "SIGSEGV"

Ctx ==
    [p |-> parser, calls |-> calls, err |-> "", tags |-> <<>>, reads |-> <<>>,
     seen |-> <<>>, lens |-> <<>>]

(* ------------------------------------------------------------------ *)
(* Operations                                                          *)
(* ------------------------------------------------------------------ *)
\* the driver reads n bytes from the socket into the parser's buffer
AppendBytes(n) ==
    /\ Alive
    /\ n \in 1..Len(wire)
    /\ parser' = [parser EXCEPT !.buffer = @ \o SubSeq(wire, 1, n)]
    /\ wire' = SubSeq(wire, n + 1, Len(wire))
    /\ UNCHANGED <<sent, calls, errs, ret, ndelivered, npushed, npropagated>>

\* the driver registers the callback of its next request
PushCallback ==
    /\ Alive
    /\ npushed < MaxCallbacks
    /\ parser' = [parser EXCEPT !.callbacks = Append(@, npushed + 1)]
    /\ npushed' = npushed + 1
    /\ UNCHANGED <<sent, wire, calls, errs, ret, ndelivered, npropagated>>

\* the driver installs (cb # 0) or removes (cb = 0) the default callback
SetDefaultCallback(cb) ==
    /\ Alive
    /\ parser.default_cb # cb
    /\ parser' = [parser EXCEPT !.default_cb = cb]
    /\ UNCHANGED <<sent, wire, calls, errs, ret, ndelivered, npushed, npropagated>>

ParseReply ==
    /\ Alive
    /\ LET r == parse_reply(Ctx)
       IN  /\ parser' = r.x.p
           /\ calls' = r.x.calls
           /\ errs' = IF r.x.err # "" THEN Append(errs, r.x.err) ELSE errs
           /\ ret' = r.ret
           /\ ndelivered' = IF r.ret = 1 THEN ndelivered + 1 ELSE ndelivered
    /\ UNCHANGED <<sent, wire, npushed, npropagated>>

PropagateReply(reply) ==
    /\ Alive
    /\ npropagated < MaxPropagate
    /\ LET x == propagate_reply(Ctx, reply)
       IN  /\ parser' = x.p
           /\ calls' = x.calls
    /\ npropagated' = npropagated + 1
    /\ UNCHANGED <<sent, wire, errs, ret, ndelivered, npushed>>

Next ==
    \/ \E n \in 1..Len(wire) : AppendBytes(n)
    \/ PushCallback
    \/ \E cb \in DefaultCbs \cup {0} : SetDefaultCallback(cb)
    \/ ParseReply
    \/ \E reply \in PropagatedReplies : PropagateReply(reply)

Spec ==
    Init /\ [][Next]_vars

\* the same driver without transport failures, on every shape of reply
NextStream ==
    \/ \E n \in 1..Len(wire) : AppendBytes(n)
    \/ PushCallback
    \/ \E cb \in DefaultCbs \cup {0} : SetDefaultCallback(cb)
    \/ ParseReply

SpecStream ==
    InitStream /\ [][NextStream]_vars

\* the same driver on deeply nested arrays
SpecNested ==
    InitNested /\ [][NextStream]_vars

\* the same driver on damaged streams
SpecAny ==
    InitAny /\ [][NextStream]_vars

(* ------------------------------------------------------------------ *)
(* Reference decoder of the RESP wire format                           *)
(* ------------------------------------------------------------------ *)
\* the index of the CR of the first CR LF at or after i, 0 when none
RECURSIVE RefLineEnd(_, _)
RefLineEnd(b, i) ==
    IF i + 1 > Len(b) THEN 0
    ELSE IF b[i] = CR /\ b[i + 1] = LF THEN i
    ELSE RefLineEnd(b, i + 1)

\* the value of the decimal digits b[i..j]
RECURSIVE RefNat(_, _, _)
RefNat(b, i, j) ==
    IF i > j THEN 0 ELSE RefNat(b, i, j - 1) * 10 + (b[j] - 48)

RefNum(b, i, j) ==
    IF i <= j /\ b[i] = MINUS THEN 0 - RefNat(b, i + 1, j) ELSE RefNat(b, i, j)

RefBulk(s, utf8) ==
    [t |-> "pv", s |-> s, n |-> 0, a |-> <<>>,
     utf8 |-> utf8 # 0 /\ \E i \in 1..Len(s) : s[i] >= 128]

RefNil ==
    [t |-> "undef", s |-> <<>>, n |-> 0, a |-> <<>>, utf8 |-> FALSE]

\* RefValue: the value whose first byte is b[i], [ok, v, next]; ok is FALSE
\* when the value is not complete in b. RefItems: the n values from b[i] on.
RECURSIVE RefValue(_, _, _)
RECURSIVE RefItems(_, _, _, _)
RefValue(b, i, utf8) ==
    LET e == RefLineEnd(b, i + 1)
        line == SubSeq(b, i + 1, e - 1)
        n == RefNum(b, i + 1, e - 1)
        none == [ok |-> FALSE, v |-> RefNil, next |-> i]
        some(v, next) == [ok |-> TRUE, v |-> v, next |-> next]
    IN  IF e = 0 THEN none
        ELSE IF b[i] = PLUS
        THEN some([t |-> "pv", s |-> line, n |-> 0, a |-> <<>>, utf8 |-> FALSE], e + 2)
        ELSE IF b[i] = MINUS
        THEN some([t |-> "error", s |-> line, n |-> 0, a |-> <<>>, utf8 |-> FALSE], e + 2)
        ELSE IF b[i] = COLON
        THEN some([t |-> "iv", s |-> <<>>, n |-> n, a |-> <<>>, utf8 |-> FALSE], e + 2)
        ELSE IF b[i] = DOLLAR
        THEN IF n < 0 THEN some(RefNil, e + 2)
             ELSE IF e + 1 + n + 2 > Len(b) THEN none
             ELSE some(RefBulk(SubSeq(b, e + 2, e + 1 + n), utf8), e + 2 + n + 2)
        ELSE IF n < 0 THEN some(RefNil, e + 2)
        ELSE LET items == RefItems(b, e + 2, n, utf8)
             IN  IF items.ok
                 THEN some([t |-> "rv", s |-> <<>>, n |-> 0, a |-> items.v,
                            utf8 |-> FALSE], items.next)
                 ELSE none

RefItems(b, i, n, utf8) ==
    IF n = 0 THEN [ok |-> TRUE, v |-> <<>>, next |-> i]
    ELSE IF i > Len(b) THEN [ok |-> FALSE, v |-> <<>>, next |-> i]
    ELSE LET first == RefValue(b, i, utf8)
             rest == RefItems(b, first.next, n - 1, utf8)
         IN  IF first.ok /\ rest.ok
             THEN [ok |-> TRUE, v |-> <<first.v>> \o rest.v, next |-> rest.next]
             ELSE [ok |-> FALSE, v |-> <<>>, next |-> i]

\* the complete top-level values of b from b[i] on
RECURSIVE RefDecodeFrom(_, _, _)
RefDecodeFrom(b, i, utf8) ==
    IF i > Len(b) THEN <<>>
    ELSE LET r == RefValue(b, i, utf8)
         IN  IF r.ok THEN <<r.v>> \o RefDecodeFrom(b, r.next, utf8) ELSE <<>>

RefDecode(b, utf8) ==
    RefDecodeFrom(b, 1, utf8)

(* ------------------------------------------------------------------ *)
(* Runs of the driver loop                                             *)
(* ------------------------------------------------------------------ *)
\* the replies of a log of callback invocations
Replies(log) ==
    [i \in 1..Len(log) |-> log[i].reply]

\* the log entries rdb_parser__parse_reply made
ByParse(log) ==
    SelectSeq(log, LAMBDA c : c.by = "parse")

IsPrefix(a, b) ==
    Len(a) <= Len(b) /\ a = SubSeq(b, 1, Len(a))

\* the driver loop: rdb_parser__parse_reply until it does not return 1
RECURSIVE Drain(_)
Drain(x) ==
    LET r == parse_reply(x)
    IN  IF r.ret = 1 THEN Drain(r.x) ELSE r.x

\* the number of rdb_parser__parse_reply calls the driver loop makes
RECURSIVE DrainCalls(_)
DrainCalls(x) ==
    LET r == parse_reply(x)
    IN  IF r.ret = 1 THEN 1 + DrainCalls(r.x) ELSE 1

\* a new parser with a default callback that is given all of bytes at once
AtOnce(bytes, utf8) ==
    Drain([p |-> [rdb_parser__init(utf8, 0) EXCEPT !.buffer = bytes,
                                                   !.default_cb = 100],
           calls |-> <<>>, err |-> "", tags |-> <<>>, reads |-> <<>>,
     seen |-> <<>>, lens |-> <<>>])

\* the parser as it is, given a default callback and the rest of the wire
RestAtOnce ==
    Drain([p |-> [parser EXCEPT !.buffer = @ \o wire, !.default_cb = 100],
           calls |-> calls, err |-> "", tags |-> <<>>, reads |-> <<>>,
     seen |-> <<>>, lens |-> <<>>])

\* the next rdb_parser__parse_reply would return 0 and all bytes were read
Drained ==
    wire = <<>> /\ parse_reply(Ctx).ret = 0

(* ------------------------------------------------------------------ *)
(* Claims                                                              *)
(* ------------------------------------------------------------------ *)
\* C1: chunking invariance. On a valid stream, however the bytes read so
\* far were cut into chunks and wherever rdb_parser__parse_reply was called
\* between them (no call has croaked), reading the rest and calling
\* rdb_parser__parse_reply until it returns 0 delivers, in all, the replies
\* that a new parser given the whole stream at once delivers, and ends the
\* same way (with the same croak or none).
C1_ChunkingInvariance ==
    errs = <<>> =>
        LET whole == AtOnce(EncodeAll(sent), parser.utf8)
        IN  /\ Replies(RestAtOnce.calls) = Replies(whole.calls)
            /\ RestAtOnce.err = whole.err
            /\ IsPrefix(Replies(calls), Replies(whole.calls))

\* C1 witness: the parser is suspended inside a bulk payload (the chunk
\* ended in the payload) after it has delivered an earlier reply.
C1_Witness ==
    /\ errs = <<>>
    /\ ret = 0
    /\ Len(calls) = 1
    /\ parser.state = RDBP_READ_BULK
    /\ Len(parser.buffer) = 1
    /\ wire # <<>>

\* C2: decoding correctness. On a valid stream, while no call has croaked,
\* the replies delivered so far are the first values of the reference
\* decoding of the stream, and all of them once the driver loop has ended
\* with every byte read.
C2_DecodingCorrectness ==
    errs = <<>> =>
        LET ref == RefDecode(EncodeAll(sent), parser.utf8)
        IN  /\ IsPrefix(Replies(calls), ref)
            /\ Drained => Replies(calls) = ref

\* C2 witness: the bulk "a CR LF b" was delivered with its four bytes.
C2_Witness ==
    /\ errs = <<>>
    /\ Drained
    /\ Len(calls) = 1
    /\ calls[1].reply.t = "pv"
    /\ calls[1].reply.s = <<97, 13, 10, 98>>
    /\ sent = <<RBulk(<<97, 13, 10, 98>>)>>

\* C2 witness for nesting: an array in an array was delivered.
C2_WitnessNested ==
    /\ errs = <<>>
    /\ Drained
    /\ Len(calls) = 1
    /\ calls[1].reply.t = "rv"
    /\ Len(calls[1].reply.a) = 1
    /\ calls[1].reply.a[1].t = "rv"
    /\ Len(calls[1].reply.a[1].a) = 1

\* C3: reply/callback ordering. The queued callbacks are called in the
\* order they were pushed, each before any callback pushed after it (the
\* queue always holds exactly the callbacks pushed after the last one
\* called); and as long as every reply so far was delivered from the queue
\* (no croak, no default callback, no propagate), the k-th reply of the
\* wire went to the k-th callback pushed.
C3_CallbackOrder ==
    LET queued == SelectSeq(calls, LAMBDA c : c.cb \notin DefaultCbs)
        ref == RefDecode(EncodeAll(sent), parser.utf8)
    IN  /\ \A i \in 1..Len(queued) : queued[i].cb = i
        /\ Len(parser.callbacks) = npushed - Len(queued)
        /\ \A i \in 1..Len(parser.callbacks) : parser.callbacks[i] = Len(queued) + i
        /\ errs = <<>> =>
              \A k \in 1..Len(calls) :
                  (\A j \in 1..k : calls[j].by = "parse" /\ calls[j].cb \notin DefaultCbs)
                      => calls[k].cb = k /\ calls[k].reply = ref[k]

\* C3 witness: three replies were delivered to the callbacks 1, 2, 3.
C3_Witness ==
    /\ errs = <<>>
    /\ Len(calls) = 3
    /\ \A k \in 1..3 : calls[k].by = "parse" /\ calls[k].cb = k
    /\ calls[1].reply # calls[2].reply

\* C4: one callback per delivered reply. A rdb_parser__parse_reply call
\* adds one callback invocation to the log when it returns 1 and none
\* otherwise, and removes at most one entry from the queue; so the
\* invocations made by rdb_parser__parse_reply are as many as the calls
\* that returned 1.
C4_OneCallbackPerDelivery ==
    /\ [](Len(ByParse(calls)) = ndelivered)
    /\ [][ParseReply =>
            /\ Len(calls') = Len(calls) + (IF ret' = 1 THEN 1 ELSE 0)
            /\ IsPrefix(calls, calls')
            /\ \A i \in (Len(calls) + 1)..Len(calls') : calls'[i].by = "parse"
            /\ Len(parser.callbacks) - Len(parser'.callbacks) \in {0, 1}]_vars

\* C4 witness: a call returned 1 having made one invocation, and the
\* buffer still holds two complete replies.
C4_Witness ==
    /\ ret = 1
    /\ ndelivered = 1
    /\ Len(calls) = 1
    /\ Len(RefDecode(parser.buffer, parser.utf8)) = 2

\* C5: dispatch routing. A rdb_parser__parse_reply call that returns 1
\* with a non-empty queue removes and calls exactly the head of the queue
\* and leaves the default callback alone; with an empty queue it calls the
\* default callback, which stays installed, and the queue stays empty.
C5_DispatchRouting ==
    [][ParseReply /\ ret' = 1 =>
          /\ Len(calls') = Len(calls) + 1
          /\ parser'.default_cb = parser.default_cb
          /\ IF parser.callbacks # <<>>
             THEN /\ parser'.callbacks = Tail(parser.callbacks)
                  /\ calls' = Append(calls, [cb |-> Head(parser.callbacks),
                                             reply |-> calls'[Len(calls')].reply,
                                             by |-> "parse"])
             ELSE /\ parser.default_cb # 0
                  /\ parser'.callbacks = <<>>
                  /\ calls' = Append(calls, [cb |-> parser.default_cb,
                                             reply |-> calls'[Len(calls')].reply,
                                             by |-> "parse"])]_vars

\* C5 witness: a reply went to the queued callback while a default
\* callback was installed, the next two went to the default callback,
\* which is still installed.
C5_Witness ==
    /\ Len(calls) = 3
    /\ \A k \in 1..3 : calls[k].by = "parse"
    /\ calls[1].cb = 1
    /\ calls[2].cb \in DefaultCbs
    /\ calls[3].cb = calls[2].cb
    /\ parser.default_cb = calls[3].cb
    /\ parser.callbacks = <<>>

\* C6: rdb_parser__propagate_reply calls every queued callback in queue
\* order and then the default callback if one is set, each once and each
\* with the reply; afterwards the queue is empty and no default callback
\* is set.
C6_Propagate ==
    [][\A reply \in PropagatedReplies :
          PropagateReply(reply) =>
              /\ calls' = calls
                     \o [i \in 1..Len(parser.callbacks) |->
                            [cb |-> parser.callbacks[i], reply |-> reply,
                             by |-> "propagate"]]
                     \o (IF parser.default_cb # 0
                         THEN <<[cb |-> parser.default_cb, reply |-> reply,
                                 by |-> "propagate"]>>
                         ELSE <<>>)
              /\ parser'.callbacks = <<>>
              /\ parser'.default_cb = 0]_vars

\* C6 witness: three queued callbacks and the default callback were called
\* by one propagate, in that order.
C6_Witness ==
    /\ npropagated = 1
    /\ Len(calls) = 4
    /\ \A k \in 1..3 : calls[k].by = "propagate" /\ calls[k].cb = k
    /\ calls[4].by = "propagate"
    /\ calls[4].cb \in DefaultCbs
    /\ parser.callbacks = <<>>
    /\ parser.default_cb = 0

C8_NoConsumer ==
    [][ParseReply /\ parser.callbacks = <<>> /\ parser.default_cb = 0 =>
          /\ calls' = calls
          /\ ret' # 1
          /\ parse_reply([Ctx EXCEPT !.p.default_cb = 100]).ret = 1 =>
                /\ ret' = 0 - 1
                /\ errs' = Append(errs,
                       "No callbacks in the queue and no default callback set")]_vars

\* C8 witness: the call croaked for want of a consumer.
C8_Witness ==
    /\ ret = 0 - 1
    /\ errs = <<"No callbacks in the queue and no default callback set">>
    /\ calls = <<>>
    /\ parser.callbacks = <<>>
    /\ parser.default_cb = 0
    /\ parser.state = RDBP_CLEAN

Tags ==
    {PLUS, MINUS, COLON, DOLLAR, STAR}

\* C9: invalid type tag. In every reachable state, a rdb_parser__parse_reply
\* call that reads as type tag a byte that is none of + - : $ * croaks at
\* that byte and calls no callback: with "Got invalid reply" for the first
\* byte of a top-level reply, with "Invalid multi-bulk reply..." for the
\* first byte of an array element.
C9_InvalidTag ==
    LET r == parse_reply(Ctx)
    IN  \A i \in 1..Len(r.x.tags) :
            r.x.tags[i].op \notin Tags =>
                /\ i = Len(r.x.tags)
                /\ r.ret = 0 - 1
                /\ r.x.calls = calls
                /\ r.x.err = IF r.x.tags[i].state = RDBP_CLEAN
                             THEN "Got invalid reply"
                             ELSE "Invalid multi-bulk reply. Expected [$:+-*] but got something else"

\* C9 witness: the call croaked at the tag of an element of a nested array.
C9_Witness ==
    /\ ret = 0 - 1
    /\ errs = <<"Invalid multi-bulk reply. Expected [$:+-*] but got something else">>
    /\ calls = <<>>
    /\ parser.state = RDBP_WAIT_BUCKS
    /\ parser.mblk_level = 2

\* C9 witness at top level.
C9_WitnessClean ==
    /\ ret = 0 - 1
    /\ errs = <<"Got invalid reply">>
    /\ calls = <<>>
    /\ parser.state = RDBP_CLEAN

BadPv(sv) ==
    sv.t = "pv" /\ ~is_utf8_string(sv.s)

\* sv is, or an array sv holds, a byte string that is not UTF-8
RECURSIVE HoldsBadPv(_)
HoldsBadPv(sv) ==
    \/ BadPv(sv)
    \/ sv.t = "rv" /\ \E i \in 1..Len(sv.a) : HoldsBadPv(sv.a[i])

\* the RESP value r is, or holds, a bulk whose payload is not UTF-8
RECURSIVE HasBadBulk(_)
HasBadBulk(r) ==
    \/ r.k = "$" /\ ~is_utf8_string(r.s)
    \/ r.k = "*" /\ \E i \in 1..Len(r.a) : HasBadBulk(r.a[i])

\* the arrays under construction
Partials ==
    { ptr[1] : ptr \in ({parser.mblk_reply}
                          \cup { parser.mblk_store[i].mblk_reply :
                                   i \in 1..Len(parser.mblk_store) }) \ {NULL} }

Utf8Croak ==
    "Received invalid UTF-8 string from the server"

\* C10: UTF-8 mode. With utf8 on, a bulk payload that is not UTF-8 (top
\* level or array element) reaches no callback and no array under
\* construction, and the call that reads it croaks; with utf8 off the
\* parser never croaks for UTF-8 and delivers the payload as bytes. A
\* simple-string or error line that is not UTF-8 is delivered in both
\* modes.
C10_Utf8Mode ==
    LET bad == \E k \in 1..Len(sent) : HasBadBulk(sent[k])
    IN  /\ parser.utf8 # 0 =>
              /\ \A k \in 1..Len(calls) :
                     HoldsBadPv(calls[k].reply) =>
                         /\ k <= Len(sent)
                         /\ sent[k].k = "+"
                         /\ calls[k].reply = newSVpvn(sent[k].s)
              /\ \A av \in Partials :
                     \A i \in 1..Len(av) : ~HoldsBadPv(av[i])
              /\ bad /\ Drained => errs # <<>> /\ errs[1] = Utf8Croak
        /\ parser.utf8 = 0 =>
              /\ \A i \in 1..Len(errs) : errs[i] # Utf8Croak
              /\ bad /\ Drained /\ errs = <<>> =>
                     /\ Len(calls) = Len(sent)
                     /\ \E k \in 1..Len(calls) : HoldsBadPv(calls[k].reply)
        /\ ~bad => \A i \in 1..Len(errs) : errs[i] # Utf8Croak
        /\ \A k \in 1..Len(sent) :
              sent[k].k \in {"+", "-"} /\ Drained /\ errs = <<>> =>
                  /\ Len(calls) >= k
                  /\ calls[k].reply.s = sent[k].s
                  /\ calls[k].reply.utf8 = FALSE

\* C10 witness: with utf8 on, the second element of an array was a bulk
\* that is not UTF-8; the call croaked, the array holds the first element
\* only and nothing was delivered.
C10_Witness ==
    /\ parser.utf8 # 0
    /\ errs = <<Utf8Croak>>
    /\ calls = <<>>
    /\ parser.mblk_level = 1
    /\ parser.mblk_reply # NULL
    /\ Len(parser.mblk_reply[1]) = 1
    /\ sent = <<RArray(<<RInt(7), RBulk(<<195>>)>>)>>

\* C10 witness with utf8 off: the same payload was delivered.
C10_WitnessOff ==
    /\ parser.utf8 = 0
    /\ errs = <<>>
    /\ Len(calls) = 1
    /\ calls[1].reply = newSVpvn(<<195>>)
    /\ sent = <<RBulk(<<195>>)>>

\* C10 witness for lines: a line that is not UTF-8 was delivered with utf8 on.
C10_WitnessLine ==
    /\ parser.utf8 # 0
    /\ errs = <<>>
    /\ Len(calls) = 1
    /\ calls[1].reply = newSVpvn(<<195>>)
    /\ sent = <<RLine(<<195>>)>>

\* C11: poisoning after a fatal error. Once a rdb_parser__parse_reply call
\* has croaked, every later call leaves the buffer as it is and calls no
\* callback.
C11_Poisoned ==
    [][ParseReply /\ errs # <<>> =>
           /\ parser'.buffer = parser.buffer
           /\ calls' = calls]_vars

\* C11, the code: after a croak a later call has delivered a reply.
C11_DeliveredAfterCroak ==
    /\ errs # <<>>
    /\ ret = 1
    /\ calls # <<>>

\* the number of frames on top of the stack that wait for their last item
RECURSIVE Closing(_)
Closing(store) ==
    IF store # <<>> /\ store[1].mblk_len <= 1
    THEN 1 + Closing(Tail(store))
    ELSE 0

\* val as the last item of the top frame of store, that array as the last
\* item of the next frame, and so on for d frames
RECURSIVE Closed(_, _, _)
Closed(val, store, d) ==
    IF d = 0 THEN val
    ELSE Closed(newRV_noinc(Append(store[1].mblk_reply[1], val)), Tail(store), d - 1)

\* The step from this state to the next has made v an item of the open
\* array: the array waits for more; or it and the d frames above that
\* waited for their last item are closed, and either the reply is
\* delivered (no frame is left) or the frame below gets the closed array
\* as an item and waits for one item less.
ItemDone(v) ==
    LET store == parser.mblk_store
        d == Closing(store)
        inner == newRV_noinc(Append(parser.mblk_reply[1], v))
    IN  IF parser.mblk_len > 1
        THEN /\ ret' = 0
             /\ calls' = calls
             /\ parser' = [parser EXCEPT !.buffer = <<>>,
                                         !.state = RDBP_WAIT_BUCKS,
                                         !.mblk_reply = <<Append(parser.mblk_reply[1], v)>>,
                                         !.mblk_len = parser.mblk_len - 1]
        ELSE IF d = Len(store)
        THEN /\ ret' = 1
             /\ Len(calls') = Len(calls) + 1
             /\ calls'[Len(calls')].reply = Closed(inner, store, d)
             /\ parser'.state = RDBP_CLEAN
             /\ parser'.mblk_store = <<>>
             /\ parser'.mblk_reply = NULL
             /\ parser'.buffer = <<>>
        ELSE /\ ret' = 0
             /\ calls' = calls
             /\ parser'.state = RDBP_WAIT_BUCKS
             /\ parser'.mblk_len = store[d + 1].mblk_len - 1
             /\ parser'.mblk_reply =
                    <<Append(store[d + 1].mblk_reply[1], Closed(inner, store, d))>>
             /\ parser'.mblk_store = SubSeq(store, d + 2, Len(store))
             /\ parser'.mblk_level = parser.mblk_level - d - 1
             /\ parser'.buffer = <<>>

HasConsumer ==
    parser.callbacks # <<>> \/ parser.default_cb # 0

\* C12: completion cascade. A rdb_parser__parse_reply call that reads the
\* last item of the innermost array closes that array and every enclosing
\* array that waited for its last item; when all are closed it returns 1
\* with the nested top-level array and the stack is empty; otherwise the
\* first enclosing array that expects more gets the closed array as one
\* item, its count goes down by one and the state is RDBP_WAIT_BUCKS.
C12_Cascade ==
    [][ParseReply /\ HasConsumer
           /\ parser.state = RDBP_WAIT_BUCKS /\ parser.mblk_len = 1
           /\ parser.buffer \in {Encode(RInt(7)), Encode(RBulk(<<97>>))}
       => ItemDone(IF parser.buffer = Encode(RInt(7))
                   THEN newSViv(7) ELSE newSVpvn(<<97>>))]_vars

\* C12 witness: [[[7]]] was delivered by the call that read :7 CR LF.
C12_Witness ==
    /\ sent = <<RArray(<<RArray(<<RArray(<<RInt(7)>>)>>)>>)>>
    /\ ret = 1
    /\ Len(calls) = 1
    /\ calls[1].reply = newRV_noinc(<<newRV_noinc(<<newRV_noinc(<<newSViv(7)>>)>>)>>)
    /\ parser.mblk_store = <<>>
    /\ parser.buffer = <<>>
    /\ wire = <<>>

\* C12 witness, the cascade stops: of [[[7]],7] the array [[7]] is closed
\* and is the first of the two items of the top-level array.
C12_WitnessStop ==
    /\ sent = <<RArray(<<RArray(<<RArray(<<RInt(7)>>)>>), RInt(7)>>)>>
    /\ ret = 0
    /\ parser.state = RDBP_WAIT_BUCKS
    /\ parser.mblk_level = 1
    /\ parser.mblk_len = 1
    /\ parser.mblk_store = <<>>
    /\ parser.mblk_reply = << <<newRV_noinc(<<newRV_noinc(<<newSViv(7)>>)>>)>> >>

\* C13: empty and nil arrays. No array is allocated before a positive
\* length is read. A call that reads *0 CR LF (*-1 CR LF) at top level
\* delivers an empty array (undef) at once; read as an item it appends
\* that value to the parent array, whose frame is back from the stack,
\* and as a last item it closes the parent and cascades as a scalar does.
C13_EmptyAndNil ==
    /\ [](parser.state = RDBP_READ_MBLK_LEN => parser.mblk_reply = NULL)
    /\ [][ParseReply /\ HasConsumer
              /\ parser.buffer \in {Encode(RArray(<<>>)), Encode(RNilArray)}
              /\ parser.state \in {RDBP_CLEAN, RDBP_WAIT_BUCKS}
          => LET v == IF parser.buffer = Encode(RArray(<<>>))
                      THEN newRV_noinc(<<>>) ELSE newSVundef
             IN  IF parser.state = RDBP_CLEAN
                 THEN /\ ret' = 1
                      /\ Len(calls') = Len(calls) + 1
                      /\ calls'[Len(calls')].reply = v
                      /\ parser'.state = RDBP_CLEAN
                      /\ parser'.mblk_reply = NULL
                      /\ parser'.mblk_store = <<>>
                      /\ parser'.mblk_level = 0
                      /\ parser'.buffer = <<>>
                 ELSE ItemDone(v)]_vars

\* C13 witness: [[nil]] was delivered, the nil array closed both arrays.
C13_Witness ==
    /\ sent = <<RArray(<<RArray(<<RNilArray>>)>>)>>
    /\ ret = 1
    /\ Len(calls) = 1
    /\ calls[1].reply = newRV_noinc(<<newRV_noinc(<<newSVundef>>)>>)
    /\ parser.mblk_store = <<>>

\* C13 witness at top level: *-1 CR LF was delivered as undef after two
\* other replies.
C13_WitnessTop ==
    /\ Len(sent) = 3
    /\ ret = 1
    /\ Len(calls) = 3
    /\ calls[2].reply = newRV_noinc(<<>>)
    /\ calls[3].reply = newSVundef

UpperLevelCroak ==
    "Already at the upper level of multi-bulk reply"

HasCrlf(b) ==
    RefLineEnd(b, 1) # 0

\* what is left of b after its first line and the CR LF
AfterLine(b) ==
    SubSeq(b, RefLineEnd(b, 1) + 2, Len(b))

\* C15, the three readers: each either finds a CR LF and consumes the line
\* with its CR LF, or reports that no line is finished and consumes nothing.
C15_ReadersAtomic ==
    Len(parser.buffer) >= 2 =>
        LET b == parser.buffer
        IN  IF HasCrlf(b)
            THEN /\ read_line(b).line # NULL /\ read_line(b).buffer = AfterLine(b)
                 /\ read_number(b).num # NULL /\ read_number(b).buffer = AfterLine(b)
                 /\ read_length(b).buffer = AfterLine(b)
            ELSE /\ read_line(b) = [line |-> NULL, buffer |-> b]
                 /\ read_number(b) = [num |-> NULL, buffer |-> b]
                 /\ read_length(b) = [num |-> 0 - 2, buffer |-> b]

\* C15 as stated: the readers are atomic; _read_length returns -2 only
\* when the buffer holds no CR LF; and a step of rdb_parser__parse_reply
\* in RDBP_READ_BULK_LEN or RDBP_READ_MBLK_LEN that ends the call with
\* return 0 has consumed nothing.
C15_Original ==
    /\ C15_ReadersAtomic
    /\ Len(parser.buffer) >= 2
          /\ parser.state \in {RDBP_READ_BULK_LEN, RDBP_READ_MBLK_LEN} =>
              /\ read_length(parser.buffer).num = 0 - 2 => ~HasCrlf(parser.buffer)
              /\ LoopBody(Ctx).ret = 0 /\ LoopBody(Ctx).x.err = "" =>
                     LoopBody(Ctx).x.p.buffer = parser.buffer

\* C16: remaining-count invariant. Whenever the state is RDBP_WAIT_BUCKS
\* an array is open and its mblk_len is at least 1, and every frame on
\* mblk_store has mblk_len at least 1, on any input bytes.
C16_Remaining ==
    /\ parser.state = RDBP_WAIT_BUCKS =>
           /\ parser.mblk_reply # NULL
           /\ parser.mblk_len >= 1
    /\ \A i \in 1..Len(parser.mblk_store) :
           /\ parser.mblk_store[i].mblk_len >= 1
           /\ parser.mblk_store[i].mblk_reply # NULL

\* C16 witness: an inner array waits for more items after its count went
\* down, the frame of the outer array is on the stack.
C16_Witness ==
    /\ parser.state = RDBP_WAIT_BUCKS
    /\ parser.mblk_reply # NULL
    /\ Len(parser.mblk_reply[1]) = 1
    /\ parser.mblk_len >= 1
    /\ Len(parser.mblk_store) = 1
    /\ parser.mblk_store[1].mblk_len = 2

\* C17: no out-of-bounds scan. In every reachable state, for the next
\* rdb_parser__parse_reply call: every CR LF search and every read of the
\* tag of an array item is made on a buffer of at least 2 bytes; the
\* search reads no byte outside the buffer and a line it finds ends
\* inside the buffer; a bulk is copied only from a buffer of at least
\* bulk_len + 2 bytes.
C17_NoOutOfBounds ==
    LET r == parse_reply(Ctx)
    IN  /\ \A i \in 1..Len(r.x.reads) :
               LET e == r.x.reads[i]
               IN  IF e.kind = "scan"
                   THEN /\ e.len >= 2
                        /\ e.arg # 0 - 3
                        /\ e.arg >= 0 - 1
                        /\ e.arg + 2 <= e.len
                   ELSE /\ e.arg >= 0
                        /\ e.len >= e.arg + 2
        /\ \A i \in 1..Len(r.x.tags) :
               /\ r.x.tags[i].len >= 1
               /\ r.x.tags[i].state = RDBP_WAIT_BUCKS => r.x.tags[i].len >= 2

\* C17 witness: the payload of a bulk is in the buffer but only one of
\* the two bytes after it; the call returned 0 and copied nothing.
C17_Witness ==
    /\ ret = 0
    /\ parser.state = RDBP_READ_BULK
    /\ parser.bulk_len >= 1
    /\ Len(parser.buffer) = parser.bulk_len + 1
    /\ parse_reply(Ctx).x.reads = <<>>

\* C17 witness: one byte of an array item is in the buffer, its tag is not
\* read.
C17_WitnessTag ==
    /\ ret = 0
    /\ parser.state = RDBP_WAIT_BUCKS
    /\ Len(parser.buffer) = 1
    /\ parse_reply(Ctx).x.tags = <<>>

\* C18: in every reachable state whose parser state is RDBP_CLEAN (a new
\* parser, after a delivery, after a croak in RDBP_CLEAN or at dispatch)
\* mblk_reply is NULL and mblk_store is empty, on any input bytes.
C18_CleanHoldsNoFrame ==
    parser.state = RDBP_CLEAN =>
        /\ parser.mblk_reply = NULL
        /\ parser.mblk_store = <<>>

\* C18 witness: an array was complete but nobody waited for it; the call
\* croaked at dispatch and left the state RDBP_CLEAN.
C18_Witness ==
    /\ parser.state = RDBP_CLEAN
    /\ ret = 0 - 1
    /\ errs = <<"No callbacks in the queue and no default callback set">>
    /\ parser.mblk_level = 1

\* C19: what the callback finds. In every reachable state without a
\* croak, when the next rdb_parser__parse_reply call delivers a reply, the
\* parser at the time of the call_sv is in RDBP_CLEAN and holds no frame,
\* its buffer and the bytes still to come are exactly the encoding of the
\* replies after the delivered one, a queued callback is off the queue,
\* and the call changes nothing after the callback returns.
C19_CallbackSeesClean ==
    LET r == parse_reply(Ctx)
    IN  errs = <<>> /\ r.ret = 1 =>
            /\ Len(r.x.seen) = 1
            /\ LET v == r.x.seen[1]
                    c == r.x.calls[Len(r.x.calls)]
               IN  /\ v.state = RDBP_CLEAN
                   /\ v.mblk_reply = NULL
                   /\ v.mblk_store = <<>>
                   /\ v.buffer \o wire =
                          EncodeAll(SubSeq(sent, Len(calls) + 2, Len(sent)))
                   /\ \A i \in 1..Len(v.callbacks) : v.callbacks[i] # c.cb
                   /\ parser.callbacks # <<>> =>
                          /\ c.cb = parser.callbacks[1]
                          /\ v.callbacks = Tail(parser.callbacks)
                   /\ v = r.x.p

\* C19 witness: the first of two replies went to the queued callback 1
\* while bytes of the second reply were in the buffer and callback 2 was
\* queued.
C19_Witness ==
    /\ errs = <<>>
    /\ ret = 1
    /\ Len(sent) = 2
    /\ Len(calls) = 1
    /\ calls[1].cb = 1
    /\ parser.callbacks = <<2>>
    /\ parser.state = RDBP_CLEAN
    /\ parser.buffer # <<>>
    /\ parser.buffer \o wire = EncodeAll(<<sent[2]>>)

\* C20: termination. In every reachable state, with all bytes of the
\* connection in the buffer (intact or damaged), the next
\* rdb_parser__parse_reply call ends: each iteration of its loop starts
\* with fewer bytes in the buffer than the iteration before, so there are
\* no more iterations than bytes; and the driver loop that calls until
\* the return is not 1 makes at most one call per byte plus one.
C20_Termination ==
    LET x0 == [Ctx EXCEPT !.p.buffer = @ \o wire]
        lens == parse_reply(x0).x.lens
    IN  /\ \A i \in 1..Len(lens) :
               /\ lens[i] <= Len(x0.p.buffer)
               /\ i > 1 => lens[i] < lens[i - 1]
        /\ Len(lens) <= Len(x0.p.buffer)
        /\ DrainCalls(x0) <= Len(x0.p.buffer) + 1

\* C20 witness: three calls of the driver loop have delivered the three
\* replies a damaged stream of twelve bytes holds.
C20_Witness ==
    /\ ndelivered = 3
    /\ ret = 1
    /\ wire = <<>>
    /\ parser.buffer = <<>>
    /\ sent = <<>>

====
